---- MODULE Spec2Model ----
(***************************************************************************)
(* Model of wm_auto.py: the W/M + order-block signal pipeline (run_once),  *)
(* its detectors, the risk sizer (lot_size_from_risk) and the order sink   *)
(* (place_market_order).                                                   *)
(*                                                                         *)
(* Units.  Bar prices are whole dollars.  Prices derived from them (stop,  *)
(* target, last close as handed to the order) are in quarter dollars, so   *)
(* that the 0.5 buffer and the 2.5 reward multiple stay exact.  Lot sizes  *)
(* are in hundredths of a lot (the rounding increment of round(lot, 2)).   *)
(* A balance is in dollars, a risk fraction in percent, a stop distance in *)
(* pips.  None is the string "None"; a label not computed yet is "-".      *)
(* A pandas NaN (the max/min of an empty slice) is the empty set, a number *)
(* x is {x}; a comparison with NaN is False.                               *)
(***************************************************************************)
EXTENDS Integers, Sequences, FiniteSets

VARIABLES
    mt5,            \* TRUE iff the MetaTrader5 module was imported (line 15-18)
    LIVE_TRADING,   \* the live/simulation flag (line 26)
    pc,             \* position inside run_once, or of a direct call
    df_m15,         \* base series fetched by get_ohlc
    df_1h,          \* resampled 1H series
    df_4h,          \* resampled 4H series
    trend,          \* calc_trend(df_4h)
    bos,            \* detect_bos(df_1h)
    wm,             \* detect_wm(df_1h)
    sweep,          \* detect_liquidity_sweep(df_m15): <<type, level>>
    ob,             \* detect_order_block(df_1h): <<type, zone>>
    balance,        \* account_info()['balance']
    now_hour,       \* datetime.utcnow().hour read by in_allowed_session, -1 before
    gate,           \* "unchecked", "passed" or "blocked"
    decision,       \* "-" while the cycle runs, then "buy", "sell" or "none"
    orders,         \* calls of place_market_order, in order
    venue,          \* calls that reached the external venue (mt5.*), in order
    error,          \* the uncaught exception that ended the operation, or "None"
    args,           \* arguments of a direct call of a function
    ret             \* value returned by a direct call of a function

vars == <<mt5, LIVE_TRADING, pc, df_m15, df_1h, df_4h, trend, bos, wm, sweep, ob,
          balance, now_hour, gate, decision, orders, venue, error, args, ret>>

---------------------------------------------------------------------------
(* Bounds of the model *)

\* longest base series the venue returns (LOOKBACK bars at most are pulled)
MaxBars == 11
\* highest price level of a bar's low, in dollars
MaxLevel == 3
\* longest 1H series handed directly to detect_bos / detect_wm
MaxDetectLen == 11
\* largest stop distance, in pips, handed directly to lot_size_from_risk
MaxSlPips == 500
\* largest risk fraction, in percent, handed directly to lot_size_from_risk
MaxRiskPct == 3

---------------------------------------------------------------------------
(* Program constants *)

\* RISK_PER_TRADE = 0.01, in percent
RISK_PER_TRADE == 1
\* ALLOWED_SESSION_HOURS
ALLOWED_SESSION_HOURS == << <<7, 16>>, <<12, 21>> >>
\* the 0.5 price buffer of run_once, in quarter dollars
BUFFER_Q == 2
\* the 2.5 reward multiple of run_once, as RewardNum / RewardDen
RewardNum == 5
RewardDen == 2
\* pip_value_1lot = 10.0
PipValue1Lot == 10
\* the 0.01 floor of lot_size_from_risk, in hundredths of a lot
MinLot == 1
\* pips per quarter dollar for a point of 0.01 (0.25 / 0.01)
PipsPerQuarter == 25
\* quarter dollars per dollar: a dollar is two buffers of 0.5
QuartersPerDollar == 2 * BUFFER_Q

None == "None"
Unset == "-"
NaN == {}

---------------------------------------------------------------------------
(* Sequence and pandas helpers *)

SetMax(S) == CHOOSE x \in S : \A y \in S : y <= x
SetMin(S) == CHOOSE x \in S : \A y \in S : x <= y
Abs(x) == IF x < 0 THEN -x ELSE x

\* s.iloc[a:b] with negative a, b (Python slice: bounds are clamped)
ILocSlice(s, a, b) ==
    LET n  == Len(s)
        lo == IF n + a < 0 THEN 0 ELSE n + a
        hi == IF n + b < 0 THEN 0 ELSE n + b
    IN  IF hi <= lo THEN <<>> ELSE SubSeq(s, lo + 1, hi)

\* df.tail(k)
Tail_k(s, k) == IF Len(s) <= k THEN s ELSE SubSeq(s, Len(s) - k + 1, Len(s))

Highs(s) == {s[i].high : i \in DOMAIN s}
Lows(s) == {s[i].low : i \in DOMAIN s}

\* Series.max() / Series.min(): NaN on an empty series
PdMax(S) == IF S = {} THEN NaN ELSE {SetMax(S)}
PdMin(S) == IF S = {} THEN NaN ELSE {SetMin(S)}
\* a > b and a < b on pandas scalars: False when either is NaN
PdGt(A, B) == \E a \in A : \E b \in B : a > b
PdLt(A, B) == \E a \in A : \E b \in B : a < b

\* s[-k] of a Python sequence (k >= 1), defined when Len(s) >= k
FromEnd(s, k) == s[Len(s) - k + 1]

---------------------------------------------------------------------------
(* Bar aggregation: df.resample(rule).agg(first/max/min/last).dropna()      *)

\* A bar's time is its 15-minute slot number; a window of w slots starts at a
\* multiple of w.  Windows without a base bar are dropped (dropna).
Resample(df, w) ==
    LET ks == {df[i].time \div w : i \in DOMAIN df}
        kth(r) == CHOOSE k \in ks : Cardinality({x \in ks : x < k}) = r - 1
        idx(k) == {i \in DOMAIN df : df[i].time \div w = k}
    IN  [r \in 1..Cardinality(ks) |->
            LET I == idx(kth(r))
            IN  [time  |-> kth(r) * w,
                 open  |-> df[SetMin(I)].open,
                 high  |-> SetMax({df[i].high : i \in I}),
                 low   |-> SetMin({df[i].low : i \in I}),
                 close |-> df[SetMax(I)].close]]

\* slots per 1H and per 4H window of the M15 base series
SlotsPerHour == 4
SlotsPer4H == 16

---------------------------------------------------------------------------
(* Detectors *)

\* calc_trend raises IndexError on highs.iloc[-1] / highs.iloc[-2]
calc_trend_raises(df) == Len(df) < 2

calc_trend(df) ==
    LET highs == Tail_k(df, 5)
        lows  == Tail_k(df, 5)
        hh == FromEnd(highs, 1).high > FromEnd(highs, 2).high
        hl == FromEnd(lows, 1).low > FromEnd(lows, 2).low
        ll == FromEnd(lows, 1).low < FromEnd(lows, 2).low
        lh == FromEnd(highs, 1).high < FromEnd(highs, 2).high
    IN  IF hh /\ hl THEN "bull"
        ELSE IF ll /\ lh THEN "bear"
        ELSE "sideways"

detect_bos(df) ==
    LET recent_high == PdMax(Highs(ILocSlice(df, -3, -1)))
        prev_high   == PdMax(Highs(ILocSlice(df, -6, -4)))
        recent_low  == PdMin(Lows(ILocSlice(df, -3, -1)))
        prev_low    == PdMin(Lows(ILocSlice(df, -6, -4)))
    IN  IF PdGt(recent_high, prev_high) THEN "bull_bos"
        ELSE IF PdLt(recent_low, prev_low) THEN "bear_bos"
        ELSE None

\* the length below which detect_wm returns None
WmMinLen == 10

\* detect_wm guarding only the four bars it reads
detect_wm_short_guard(df) ==
    IF Len(df) < 4 THEN None
    ELSE IF /\ FromEnd(df, 3).low < FromEnd(df, 4).low
            /\ FromEnd(df, 3).low < FromEnd(df, 2).low
            /\ FromEnd(df, 2).low > FromEnd(df, 1).low
    THEN "W"
    ELSE IF /\ FromEnd(df, 3).high > FromEnd(df, 4).high
            /\ FromEnd(df, 3).high > FromEnd(df, 2).high
            /\ FromEnd(df, 2).high < FromEnd(df, 1).high
    THEN "M"
    ELSE None

detect_wm(df) ==
    IF Len(df) < WmMinLen THEN None
    ELSE LET last == Tail_k(df, 12)
         IN  IF /\ FromEnd(last, 3).low < FromEnd(last, 4).low
                /\ FromEnd(last, 3).low < FromEnd(last, 2).low
                /\ FromEnd(last, 2).low > FromEnd(last, 1).low
             THEN "W"
             ELSE IF /\ FromEnd(last, 3).high > FromEnd(last, 4).high
                     /\ FromEnd(last, 3).high > FromEnd(last, 2).high
                     /\ FromEnd(last, 2).high < FromEnd(last, 1).high
             THEN "M"
             ELSE None

\* returns <<type, level>>; the level is a pandas scalar ({x}) or None
detect_liquidity_sweep(df) ==
    LET last3       == Tail_k(df, 6)
        high_wick   == PdMax(Highs(last3))
        low_wick    == PdMin(Lows(last3))
        recent_high == PdMax(Highs(ILocSlice(df, -20, -5)))
        recent_low  == PdMin(Lows(ILocSlice(df, -20, -5)))
        sweep_buy   == /\ PdLt(low_wick, recent_low)
                       /\ FromEnd(last3, 1).close > FromEnd(last3, 1).open
        sweep_sell  == /\ PdGt(high_wick, recent_high)
                       /\ FromEnd(last3, 1).close < FromEnd(last3, 1).open
    IN  IF sweep_buy THEN <<"buy_sweep", low_wick>>
        ELSE IF sweep_sell THEN <<"sell_sweep", high_wick>>
        ELSE <<None, None>>

\* detect_order_block raises IndexError on df_1h.iloc[-2]
detect_order_block_raises(df) == Len(df) < 2

\* returns <<type, zone>>; the zone is <<low, high>> or None
detect_order_block(df) ==
    LET last == FromEnd(df, 2)
    IN  IF last.close < last.open THEN <<"buy", <<last.low, last.high>> >>
        ELSE IF last.close > last.open THEN <<"sell", <<last.low, last.high>> >>
        ELSE <<None, None>>

\* in_allowed_session with the end of a window included (start <= h <= end)
in_allowed_session_closed(h) ==
    \E i \in DOMAIN ALLOWED_SESSION_HOURS :
        ALLOWED_SESSION_HOURS[i][1] <= h /\ h <= ALLOWED_SESSION_HOURS[i][2]

\* in_allowed_session, on the hour h of now
in_allowed_session(h) ==
    \E i \in DOMAIN ALLOWED_SESSION_HOURS :
        ALLOWED_SESSION_HOURS[i][1] <= h /\ h < ALLOWED_SESSION_HOURS[i][2]

---------------------------------------------------------------------------
(* Risk sizer *)

\* round(x, 2) of x = num / den hundredths of a lot: the nearest hundredth.
\* On an exact decimal tie the float's binary value decides, so either
\* neighbour is possible.
PyRound(num, den) ==
    LET q == num \div den
        r == num % den
    IN  IF 2 * r < den THEN {q}
        ELSE IF 2 * r > den THEN {q + 1}
        ELSE {q, q + 1}

\* lot_size_from_risk without the max(0.01, ...) floor
lot_size_from_risk_no_floor(m, info, bal, pct, sl_pips) ==
    IF ~m THEN {MinLot}
    ELSE IF ~info THEN {MinLot}
    ELSE PyRound(bal * pct, sl_pips * PipValue1Lot)

\* lot_size_from_risk(balance, risk_pct, sl_pips) when the module mt5 is m and
\* mt5.symbol_info(SYMBOL) is not None iff info: the set of values it may
\* return, in hundredths of a lot.  risk_dollars = balance * pct / 100 and
\* lot = risk_dollars / (sl_pips * pip_value_1lot), so in hundredths the lot is
\* balance * pct / (sl_pips * pip_value_1lot).  sl_pips > 0.
lot_size_from_risk(m, info, bal, pct, sl_pips) ==
    IF ~m THEN {MinLot}
    ELSE IF ~info THEN {MinLot}
    ELSE LET num == bal * pct
             den == sl_pips * PipValue1Lot
         IN  IF num <= MinLot * den THEN {MinLot} ELSE PyRound(num, den)

---------------------------------------------------------------------------
(* Order sink *)

\* place_market_order without the test of LIVE_TRADING
place_market_order_always_live(live, m, direction, lot, sl_price, tp_price) ==
    IF ~m
    THEN [error |-> "RuntimeError", ret |-> None, calls |-> <<>>]
    ELSE [error |-> None,
          ret   |-> [ret |-> "order_send", direction |-> direction, lot |-> lot],
          calls |-> <<"symbol_info_tick", "symbol_info", "order_send">>]

\* place_market_order(direction, lot, sl_price, tp_price) under the flag live
\* and the module m: the exception it raises, the value it returns and the
\* calls it makes on the venue.
place_market_order(live, m, direction, lot, sl_price, tp_price) ==
    IF ~live
    THEN [error |-> None,
          ret   |-> [ret |-> "simulated", direction |-> direction, lot |-> lot],
          calls |-> <<>>]
    ELSE IF ~m
    THEN [error |-> "RuntimeError", ret |-> None, calls |-> <<>>]
    ELSE [error |-> None,
          ret   |-> [ret |-> "order_send", direction |-> direction, lot |-> lot],
          calls |-> <<"symbol_info_tick", "symbol_info", "order_send">>]

---------------------------------------------------------------------------
(* Signal composer: the decision rules of run_once *)

\* the long rule without its trend condition
LongRule_no_trend(t, b, w, s, o) ==
    s = "buy_sweep" /\ o = "buy" /\ (b = "bull_bos" \/ w = "W")

LongRule(t, b, w, s, o) ==
    s = "buy_sweep" /\ o = "buy" /\ (b = "bull_bos" \/ w = "W") /\ t = "bull"

ShortRule(t, b, w, s, o) ==
    s = "sell_sweep" /\ o = "sell" /\ (b = "bear_bos" \/ w = "M") /\ t = "bear"

\* df_m15['close'].iloc[-1], in quarter dollars
LastCloseQ(df) == FromEnd(df, 1).close * QuartersPerDollar

\* the buy stop taken from the zone's high (ob_zone[1]) instead of its low
BuyStopQ_high(zone) == zone[2] * QuartersPerDollar - BUFFER_Q

\* sl_price of the buy branch: ob_zone[0] - 0.5
BuyStopQ(zone) == zone[1] * QuartersPerDollar - BUFFER_Q
\* tp_price of the buy branch: close + (close - sl_price) * 2.5
BuyTargetQ(close_q, sl_q) == close_q + ((close_q - sl_q) * RewardNum) \div RewardDen

\* sl_price of the sell branch: ob_zone[1] + 0.5
SellStopQ(zone) == zone[2] * QuartersPerDollar + BUFFER_Q
\* tp_price of the sell branch: close - (sl_price - close) * 2.5
SellTargetQ(close_q, sl_q) == close_q - ((sl_q - close_q) * RewardNum) \div RewardDen

\* sl_pips: abs(close - sl_price) / point, for a point of 0.01
SlPips(close_q, sl_q) == Abs(close_q - sl_q) * PipsPerQuarter

\* the branch run_once takes after the session gate: long is tested first
ComposerBranch(t, b, w, s, o) ==
    IF LongRule(t, b, w, s, o) THEN "buy"
    ELSE IF ShortRule(t, b, w, s, o) THEN "sell"
    ELSE "none"

---------------------------------------------------------------------------
(* Inputs: the bar snapshots the venue may return *)

\* level of the flat older history, in dollars
RefLevel == 1

\* A candle one dollar high whose low is lvl: rising (open at the low, close
\* at the high) or falling.
Candle(lvl, dir) ==
    IF dir = "up"
    THEN [open |-> lvl, high |-> lvl + 1, low |-> lvl, close |-> lvl + 1]
    ELSE [open |-> lvl + 1, high |-> lvl + 1, low |-> lvl, close |-> lvl]

Candles == {Candle(l, d) : l \in 0..MaxLevel, d \in {"up", "down"}}

\* spacing of the bars the feed holds, in 15-minute slots: every slot, every
\* other slot, or one bar an hour (a sparse feed has gaps)
Steps == {1, 2, 4}

\* slot of the first bar: the feed starts on a 4H boundary or 1h30 after one
Offsets == {0, 6}

\* n bars, step slots apart from slot t0 on: a flat history of rising candles at
\* RefLevel, then the three most recent bars c3, c2, c1 (c1 is the last bar).
Snapshot(n, step, t0, c3, c2, c1) ==
    [i \in 1..n |->
        LET c == IF i = n THEN c1
                 ELSE IF i = n - 1 THEN c2
                 ELSE IF i = n - 2 THEN c3
                 ELSE Candle(RefLevel, "up")
        IN  [time |-> t0 + (i - 1) * step, open |-> c.open, high |-> c.high,
             low |-> c.low, close |-> c.close]]

Snapshots ==
    {Snapshot(n, step, t0, c3, c2, c1) :
        n \in 0..MaxBars, step \in Steps, t0 \in Offsets,
        c3 \in Candles, c2 \in Candles, c1 \in Candles}

\* balances account_info() may report, in dollars
Balances == {1000, 10000}

\* hours datetime.utcnow() may report
Hours == 0..23

---------------------------------------------------------------------------
(* run_once, one action per step *)

Fail(e) ==
    /\ pc' = "Failed"
    /\ error' = e

\* line 207: df_m15 = get_ohlc(n=LOOKBACK).  Without the module get_ohlc raises
\* RuntimeError.  When the venue has no bar, copy_rates_from_pos returns None
\* (df['time'] raises KeyError) or an empty array (an empty frame).
Fetch ==
    /\ pc = "Idle"
    /\ IF ~mt5
       THEN /\ Fail("RuntimeError")
            /\ UNCHANGED <<df_m15, venue>>
       ELSE \E rates \in Snapshots : \E none_result \in BOOLEAN :
            /\ none_result => rates = <<>>
            /\ venue' = Append(venue, "copy_rates_from_pos")
            /\ IF none_result
               THEN /\ Fail("KeyError")
                    /\ UNCHANGED df_m15
               ELSE /\ df_m15' = rates
                    /\ pc' = "fetched"
                    /\ UNCHANGED error
    /\ UNCHANGED <<mt5, LIVE_TRADING, df_1h, df_4h, trend, bos, wm, sweep, ob,
                   balance, now_hour, gate, decision, orders, args, ret>>

\* lines 209-210: the 1H and 4H series
ResampleBars ==
    /\ pc = "fetched"
    /\ df_1h' = Resample(df_m15, SlotsPerHour)
    /\ df_4h' = Resample(df_m15, SlotsPer4H)
    /\ pc' = "resampled"
    /\ UNCHANGED <<mt5, LIVE_TRADING, df_m15, trend, bos, wm, sweep, ob, balance,
                   now_hour, gate, decision, orders, venue, error, args, ret>>

\* line 212: trend = calc_trend(df_4h)
Trend ==
    /\ pc = "resampled"
    /\ IF calc_trend_raises(df_4h)
       THEN /\ Fail("IndexError")
            /\ UNCHANGED trend
       ELSE /\ trend' = calc_trend(df_4h)
            /\ pc' = "trend"
            /\ UNCHANGED error
    /\ UNCHANGED <<mt5, LIVE_TRADING, df_m15, df_1h, df_4h, bos, wm, sweep, ob,
                   balance, now_hour, gate, decision, orders, venue, args, ret>>

\* line 213: bos = detect_bos(df_1h)
Bos ==
    /\ pc = "trend"
    /\ bos' = detect_bos(df_1h)
    /\ pc' = "bos"
    /\ UNCHANGED <<mt5, LIVE_TRADING, df_m15, df_1h, df_4h, trend, wm, sweep, ob,
                   balance, now_hour, gate, decision, orders, venue, error, args, ret>>

\* line 214: wm = detect_wm(df_1h)
Wm ==
    /\ pc = "bos"
    /\ wm' = detect_wm(df_1h)
    /\ pc' = "wm"
    /\ UNCHANGED <<mt5, LIVE_TRADING, df_m15, df_1h, df_4h, trend, bos, sweep, ob,
                   balance, now_hour, gate, decision, orders, venue, error, args, ret>>

\* line 215: sweep_type, sweep_level = detect_liquidity_sweep(df_m15)
Sweep ==
    /\ pc = "wm"
    /\ sweep' = detect_liquidity_sweep(df_m15)
    /\ pc' = "sweep"
    /\ UNCHANGED <<mt5, LIVE_TRADING, df_m15, df_1h, df_4h, trend, bos, wm, ob,
                   balance, now_hour, gate, decision, orders, venue, error, args, ret>>

\* line 216: ob_type, ob_zone = detect_order_block(df_1h)
OrderBlock ==
    /\ pc = "sweep"
    /\ IF detect_order_block_raises(df_1h)
       THEN /\ Fail("IndexError")
            /\ UNCHANGED ob
       ELSE /\ ob' = detect_order_block(df_1h)
            /\ pc' = "ob"
            /\ UNCHANGED error
    /\ UNCHANGED <<mt5, LIVE_TRADING, df_m15, df_1h, df_4h, trend, bos, wm, sweep,
                   balance, now_hour, gate, decision, orders, venue, args, ret>>

\* lines 217-218: the balance of the account
Account ==
    /\ pc = "ob"
    /\ \E b \in Balances : balance' = b
    /\ venue' = Append(venue, "account_info")
    /\ pc' = "account"
    /\ UNCHANGED <<mt5, LIVE_TRADING, df_m15, df_1h, df_4h, trend, bos, wm, sweep, ob,
                   now_hour, gate, decision, orders, error, args, ret>>

\* the session gate without its return: the cycle goes on outside the windows
SessionGate_no_return ==
    /\ pc = "account"
    /\ \E h \in Hours :
        /\ now_hour' = h
        /\ gate' = IF in_allowed_session(h) THEN "passed" ELSE "blocked"
        /\ pc' = "gated"
    /\ UNCHANGED <<mt5, LIVE_TRADING, df_m15, df_1h, df_4h, trend, bos, wm, sweep, ob,
                   balance, decision, orders, venue, error, args, ret>>

\* lines 222-224: the session gate; outside the windows the cycle returns
SessionGate ==
    /\ pc = "account"
    /\ \E h \in Hours :
        /\ now_hour' = h
        /\ IF in_allowed_session(h)
           THEN /\ gate' = "passed"
                /\ pc' = "gated"
                /\ UNCHANGED decision
           ELSE /\ gate' = "blocked"
                /\ pc' = "Decided"
                /\ decision' = "none"
    /\ UNCHANGED <<mt5, LIVE_TRADING, df_m15, df_1h, df_4h, trend, bos, wm, sweep, ob,
                   balance, orders, venue, error, args, ret>>

\* lines 230-238 and 241-248: size the position and hand the order to the sink.
\* mt5.symbol_info(SYMBOL) is read twice (for the point, then inside
\* lot_size_from_risk); each read may find the symbol or return None.
Trade(direction, sl_q, tp_q, close_q) ==
    \E info_point \in BOOLEAN : \E info_size \in BOOLEAN :
        IF ~info_point
        THEN /\ info_size
             /\ Fail("AttributeError")
             /\ venue' = Append(venue, "symbol_info")
             /\ UNCHANGED <<decision, orders>>
        ELSE \E lot \in lot_size_from_risk(mt5, info_size, balance, RISK_PER_TRADE,
                                           SlPips(close_q, sl_q)) :
             LET res == place_market_order(LIVE_TRADING, mt5, direction, lot, sl_q, tp_q)
             IN  /\ orders' = Append(orders, [direction |-> direction, lot |-> lot,
                                              sl |-> sl_q, tp |-> tp_q])
                 /\ venue' = venue \o <<"symbol_info", "symbol_info">> \o res.calls
                 /\ IF res.error # None
                    THEN /\ Fail(res.error)
                         /\ UNCHANGED decision
                    ELSE /\ decision' = direction
                         /\ pc' = "Decided"
                         /\ UNCHANGED error

\* lines 226-250: the decision rules, long before short
Decide ==
    /\ pc = "gated"
    /\ LET branch  == ComposerBranch(trend, bos, wm, sweep[1], ob[1])
           close_q == LastCloseQ(df_m15)
       IN  IF branch = "buy"
           THEN Trade("buy", BuyStopQ(ob[2]),
                      BuyTargetQ(close_q, BuyStopQ(ob[2])), close_q)
           ELSE IF branch = "sell"
           THEN Trade("sell", SellStopQ(ob[2]),
                      SellTargetQ(close_q, SellStopQ(ob[2])), close_q)
           ELSE /\ decision' = "none"
                /\ pc' = "Decided"
                /\ UNCHANGED <<orders, venue, error>>
    /\ UNCHANGED <<mt5, LIVE_TRADING, df_m15, df_1h, df_4h, trend, bos, wm, sweep, ob,
                   balance, now_hour, gate, args, ret>>

\* the state when run_once is entered: the module is imported or not
\* (lines 15-18) and LIVE_TRADING is False (line 26)
Init ==
    /\ mt5 \in BOOLEAN
    /\ LIVE_TRADING = FALSE
    /\ pc = "Idle"
    /\ df_m15 = <<>>
    /\ df_1h = <<>>
    /\ df_4h = <<>>
    /\ trend = Unset
    /\ bos = Unset
    /\ wm = Unset
    /\ sweep = <<Unset, None>>
    /\ ob = <<Unset, None>>
    /\ balance = 0
    /\ now_hour = -1
    /\ gate = "unchecked"
    /\ decision = Unset
    /\ orders = <<>>
    /\ venue = <<>>
    /\ error = None
    /\ args = <<>>
    /\ ret = None

Next ==
    \/ Fetch
    \/ ResampleBars
    \/ Trend
    \/ Bos
    \/ Wm
    \/ Sweep
    \/ OrderBlock
    \/ Account
    \/ SessionGate
    \/ Decide

Spec == Init /\ [][Next]_vars

---------------------------------------------------------------------------
(* Direct calls of the detectors on a 1H series *)

\* bars of a directly built series: low and high vary independently
Shapes == {<<0, 1>>, <<0, 2>>, <<1, 2>>}

ShapeBar(i, sh) ==
    [time |-> (i - 1) * SlotsPerHour, open |-> sh[1], high |-> sh[2],
     low |-> sh[1], close |-> sh[2]]

\* the series of k bars whose shapes are f[1], ..., f[k]
ShapeSeries(k, f) == [i \in 1..k |-> ShapeBar(i, f[i])]

Quiet ==
    /\ df_m15 = <<>>
    /\ df_4h = <<>>
    /\ trend = Unset
    /\ sweep = <<Unset, None>>
    /\ ob = <<Unset, None>>
    /\ balance = 0
    /\ now_hour = -1
    /\ gate = "unchecked"
    /\ decision = Unset
    /\ orders = <<>>
    /\ venue = <<>>
    /\ error = None
    /\ ret = None

InitDetect ==
    /\ Quiet
    /\ mt5 = TRUE
    /\ LIVE_TRADING = FALSE
    /\ pc = "call"
    /\ \E k \in 0..MaxDetectLen : \E f \in [1..k -> Shapes] :
        df_1h = ShapeSeries(k, f)
    /\ bos = Unset
    /\ wm = Unset
    /\ args = <<>>

CallDetectBos ==
    /\ pc = "call"
    /\ bos' = detect_bos(df_1h)
    /\ args' = <<"detect_bos">>
    /\ pc' = "done"
    /\ UNCHANGED <<mt5, LIVE_TRADING, df_m15, df_1h, df_4h, trend, wm, sweep, ob,
                   balance, now_hour, gate, decision, orders, venue, error, ret>>

CallDetectWm ==
    /\ pc = "call"
    /\ wm' = detect_wm(df_1h)
    /\ args' = <<"detect_wm">>
    /\ pc' = "done"
    /\ UNCHANGED <<mt5, LIVE_TRADING, df_m15, df_1h, df_4h, trend, bos, sweep, ob,
                   balance, now_hour, gate, decision, orders, venue, error, ret>>

NextDetect ==
    \/ CallDetectBos
    \/ CallDetectWm

SpecDetect == InitDetect /\ [][NextDetect]_vars

---------------------------------------------------------------------------
(* Direct calls of lot_size_from_risk *)

RiskBalances == {100, 1000, 10000}

InitRisk ==
    /\ Quiet
    /\ mt5 \in BOOLEAN
    /\ LIVE_TRADING = FALSE
    /\ pc = "call"
    /\ df_1h = <<>>
    /\ bos = Unset
    /\ wm = Unset
    /\ args \in [balance : RiskBalances, risk_pct : 1..MaxRiskPct, sl_pips : 1..MaxSlPips]

\* info: whether mt5.symbol_info(SYMBOL) finds the symbol (read only with mt5)
CallLotSize ==
    /\ pc = "call"
    /\ \E info \in BOOLEAN :
        /\ ~mt5 => ~info
        /\ \E lot \in lot_size_from_risk(mt5, info, args.balance, args.risk_pct,
                                         args.sl_pips) :
            ret' = [lot |-> lot, info |-> info]
    /\ pc' = "done"
    /\ UNCHANGED <<mt5, LIVE_TRADING, df_m15, df_1h, df_4h, trend, bos, wm, sweep, ob,
                   balance, now_hour, gate, decision, orders, venue, error, args>>

NextRisk ==
    \/ CallLotSize

SpecRisk == InitRisk /\ [][NextRisk]_vars

---------------------------------------------------------------------------
(* Direct calls of place_market_order *)

\* sl_price / tp_price: None (<<>>) or a price in quarter dollars (<<p>>)
PriceArgs == {<<>>} \cup {<<p>> : p \in 0..(QuartersPerDollar * MaxLevel)}

InitOrder ==
    /\ Quiet
    /\ mt5 \in BOOLEAN
    /\ LIVE_TRADING \in BOOLEAN
    /\ pc = "call"
    /\ df_1h = <<>>
    /\ bos = Unset
    /\ wm = Unset
    /\ args \in [direction : {"buy", "sell"}, lot : {MinLot, 20},
                 sl : PriceArgs, tp : PriceArgs]

CallPlaceMarketOrder ==
    /\ pc = "call"
    /\ LET res == place_market_order(LIVE_TRADING, mt5, args.direction, args.lot,
                                     args.sl, args.tp)
       IN  /\ orders' = Append(orders, args)
           /\ venue' = venue \o res.calls
           /\ ret' = res.ret
           /\ error' = res.error
           /\ pc' = IF res.error # None THEN "Failed" ELSE "done"
    /\ UNCHANGED <<mt5, LIVE_TRADING, df_m15, df_1h, df_4h, trend, bos, wm, sweep, ob,
                   balance, now_hour, gate, decision, args>>

NextOrder ==
    \/ CallPlaceMarketOrder

SpecOrder == InitOrder /\ [][NextOrder]_vars

---------------------------------------------------------------------------
(* Properties *)

\* the hour h lies in no configured window (no window with start <= h < end)
OutsideEveryWindow(h) ==
    \A i \in DOMAIN ALLOWED_SESSION_HOURS :
        ~(ALLOWED_SESSION_HOURS[i][1] <= h /\ h < ALLOWED_SESSION_HOURS[i][2])

\* the labels of the cycle satisfy the long rule / the short rule of the spec
LabelsLong ==
    /\ sweep[1] = "buy_sweep"
    /\ ob[1] = "buy"
    /\ (bos = "bull_bos" \/ wm = "W")
    /\ trend = "bull"

LabelsShort ==
    /\ sweep[1] = "sell_sweep"
    /\ ob[1] = "sell"
    /\ (bos = "bear_bos" \/ wm = "M")
    /\ trend = "bear"

\* C1: in a cycle whose session gate reads an hour outside every configured
\* window, the cycle ends at once with Decision none and no order is handed to
\* the order sink, whatever the labels are.
C1_OutsideSessionNoOrder ==
    (gate # "unchecked" /\ OutsideEveryWindow(now_hour)) =>
        /\ gate = "blocked"
        /\ pc = "Decided"
        /\ decision = "none"
        /\ orders = <<>>

\* C1 witness: a cycle ended outside the session although its labels satisfy
\* the long rule.
C1_Witness ==
    /\ pc = "Decided"
    /\ gate = "blocked"
    /\ OutsideEveryWindow(now_hour)
    /\ LabelsLong
    /\ decision = "none"
    /\ orders = <<>>

\* C2: a cycle that passed the session gate and reached Decided decides buy
\* exactly when the long rule holds of its labels, sell exactly when the short
\* rule holds, none in every other case; it hands one order of that direction
\* to the sink for buy or sell and none for none.
C2_ComposerRule ==
    (gate = "passed" /\ pc = "Decided") =>
        /\ decision \in {"buy", "sell", "none"}
        /\ decision = "buy" <=> LabelsLong
        /\ decision = "sell" <=> (LabelsShort /\ ~LabelsLong)
        /\ decision = "none" <=> (~LabelsLong /\ ~LabelsShort)
        /\ decision = "none" => orders = <<>>
        /\ decision # "none" => (Len(orders) = 1 /\ orders[1].direction = decision)

\* C2 witness: a buy decided inside the session.
C2_Witness ==
    /\ gate = "passed"
    /\ pc = "Decided"
    /\ decision = "buy"
    /\ LabelsLong
    /\ Len(orders) = 1

\* C3: every buy order has stop = zone.low - 0.5 and target = lastClose +
\* (lastClose - stop) * 2.5, every sell order stop = zone.high + 0.5 and target =
\* lastClose - (stop - lastClose) * 2.5, where the zone is the second-to-last 1H
\* bar of the cycle and lastClose the close of the last M15 bar (prices in
\* quarter dollars: 0.5 is 2, and 2.5 x is 5 x / 2).
C3_StopAndTarget ==
    \A i \in DOMAIN orders :
        LET o == orders[i]
            c == 4 * df_m15[Len(df_m15)].close
            z == df_1h[Len(df_1h) - 1]
        IN  /\ o.direction = "buy" =>
                (o.sl = 4 * z.low - 2 /\ 2 * (o.tp - c) = 5 * (c - o.sl))
            /\ o.direction = "sell" =>
                (o.sl = 4 * z.high + 2 /\ 2 * (c - o.tp) = 5 * (o.sl - c))

\* C3 witness: a buy order was handed to the sink.
C3_Witness ==
    /\ pc = "Decided"
    /\ Len(orders) = 1
    /\ orders[1].direction = "buy"
    /\ ob[1] = "buy"

\* the value l (hundredths of a lot) is max(0.01, balance * risk / (sl_pips * 10))
\* rounded to the 0.01 increment: 1 when the raw size is at most 0.01, else a
\* nearest hundredth of balance * pct / (10 * sl_pips)
IsSizedLot(l, bal, pct, sl_pips) ==
    IF bal * pct <= 10 * sl_pips
    THEN l = 1
    ELSE 2 * Abs(bal * pct - l * 10 * sl_pips) <= 10 * sl_pips

\* C4 as stated: in every execution mode lot_size_from_risk returns
\* max(0.01, balance * risk / (sl_pips * 10)) rounded to 0.01.
C4_Claim ==
    pc = "done" => IsSizedLot(ret.lot, args.balance, args.risk_pct, args.sl_pips)

\* C4 amended: lot_size_from_risk returns that value when the MetaTrader5 module
\* is imported and the symbol is found, the minimum size 0.01 otherwise, and
\* never less than the minimum.
C4_SizedWithModule ==
    pc = "done" =>
        /\ (mt5 /\ ret.info) =>
               IsSizedLot(ret.lot, args.balance, args.risk_pct, args.sl_pips)
        /\ ~(mt5 /\ ret.info) => ret.lot = 1
        /\ ret.lot >= 1

\* C4 witness: balance 10000, risk 0.01, stop 50 pips gives 0.2 with the module.
C4_Witness ==
    /\ pc = "done"
    /\ mt5
    /\ ret.info
    /\ args = [balance |-> 10000, risk_pct |-> 1, sl_pips |-> 50]
    /\ ret.lot = 20

\* C5: in simulation mode (LIVE_TRADING false) a call of place_market_order
\* returns the synthetic acknowledgement, raises nothing and makes no call on
\* the venue, for any direction, size, stop and target.
C5_SimulationNeverReachesVenue ==
    (pc \in {"done", "Failed"} /\ ~LIVE_TRADING) =>
        /\ pc = "done"
        /\ error = None
        /\ venue = <<>>
        /\ ret = [ret |-> "simulated", direction |-> args.direction, lot |-> args.lot]

\* C5 witness: a simulated sell with the module imported.
C5_Witness ==
    /\ pc = "done"
    /\ ~LIVE_TRADING
    /\ mt5
    /\ args.direction = "sell"
    /\ Len(orders) = 1
    /\ venue = <<>>

\* C6: every cycle ends in Decided with exactly one Decision: it never ends in
\* an uncaught failure and never hands more than one order to the sink.
C6_Claim ==
    /\ pc # "Failed"
    /\ pc = "Decided" => decision \in {"buy", "sell", "none"}
    /\ Len(orders) <= 1

\* C7: detect_bos returns None for every series of fewer than 8 bars.
C7_Claim ==
    (pc = "done" /\ bos # Unset /\ Len(df_1h) < 8) => bos = None

\* C8 as stated: detect_wm returns None for every series of fewer than 12 bars.
C8_Claim ==
    (pc = "done" /\ wm # Unset /\ Len(df_1h) < 12) => wm = None

\* C8 amended: detect_wm returns None for every series of fewer than 10 bars.
C8_NoneBelowTen ==
    (pc = "done" /\ wm # Unset /\ Len(df_1h) < 10) => wm = None

\* C8 witness: a 9-bar series whose last four lows have the W shape gets None.
C8_Witness ==
    /\ pc = "done"
    /\ wm = None
    /\ Len(df_1h) = 9
    /\ df_1h[7].low < df_1h[6].low
    /\ df_1h[7].low < df_1h[8].low
    /\ df_1h[8].low > df_1h[9].low

\* some bar aggregation or detector of the cycle has run
Evaluated ==
    \/ df_1h # <<>>
    \/ df_4h # <<>>
    \/ trend # Unset
    \/ bos # Unset
    \/ wm # Unset
    \/ sweep[1] # Unset
    \/ ob[1] # Unset

\* every detector of the cycle has run
AllDetectorsRan ==
    /\ trend # Unset
    /\ bos # Unset
    /\ wm # Unset
    /\ sweep[1] # Unset
    /\ ob[1] # Unset

\* C9 as stated: no aggregation and no detector runs before the session gate
\* has passed, and a cycle outside the windows ends without running any.
C9_Claim ==
    Evaluated => gate = "passed"

\* C9 amended: the session gate is checked after the aggregation and all five
\* detectors have run, and before any decision rule is applied: no order is
\* handed to the sink and no buy or sell is decided unless the gate has passed,
\* and a cycle outside the windows ends at the gate with Decision none.
C9_GateBeforeDecision ==
    /\ gate # "unchecked" => AllDetectorsRan
    /\ (orders # <<>> \/ decision \in {"buy", "sell"}) => gate = "passed"
    /\ gate = "blocked" => (pc = "Decided" /\ decision = "none" /\ orders = <<>>)

\* C9 witness: a cycle blocked by the gate, all detectors having run.
C9_Witness ==
    /\ gate = "blocked"
    /\ pc = "Decided"
    /\ AllDetectorsRan
    /\ df_1h # <<>>
    /\ df_4h # <<>>

\* C10: every order has its stop and target on the correct sides of lastClose:
\* stop < lastClose < target for a buy, target < lastClose < stop for a sell
\* (prices in quarter dollars).
C10_Claim ==
    \A i \in DOMAIN orders :
        LET o == orders[i]
            c == 4 * df_m15[Len(df_m15)].close
        IN  /\ o.direction = "buy" => (o.sl < c /\ c < o.tp)
            /\ o.direction = "sell" => (o.tp < c /\ c < o.sl)

====
